---- MODULE Spec2Model ----
(***************************************************************************)
(* Model of the fee-rule validator: main() (src/main.py), run_orchestrator *)
(* (src/orchestrator/rules_orchestrator.py) and the get_db session scope   *)
(* (src/db/connection.py).                                                 *)
(*                                                                         *)
(* Conventions                                                             *)
(*  - Python values are tagged records [t, v]; t is the Python type.       *)
(*  - Column headers of the rule workbook are tuples of one-character      *)
(*    strings, so that str.lower() is computed letter by letter.           *)
(*  - The message prefixes are written in ASCII: "OK" stands for the       *)
(*    success marker, "FAIL " for the cross mark, "Error evaluando regla " *)
(*    for the warning-sign prefix.                                         *)
(*  - main() is modelled for invocations without --test-db and --seed.     *)
(***************************************************************************)
EXTENDS Integers, Sequences, FiniteSets, TLC

\* ------------------------------------------------------------------------
\* Bounds
\* ------------------------------------------------------------------------
\* most rows in the rule workbook
MaxRules == 2
\* most ids given to --agents
MaxIds == 2

\* ------------------------------------------------------------------------
\* Python values
\* ------------------------------------------------------------------------
Num(n) == [t |-> "num", v |-> n]
Str(s) == [t |-> "str", v |-> s]
Bool(b) == [t |-> "bool", v |-> b]
None == [t |-> "none", v |-> 0]
\* a blank workbook cell is read by pandas as float nan
NaN == [t |-> "nan", v |-> "nan"]

Range(s) == {s[i] : i \in DOMAIN s}

\* bool(x) for the value kinds above
Truthy(x) ==
  CASE x.t = "none" -> FALSE
    [] x.t = "bool" -> x.v
    [] x.t = "num" -> x.v # 0
    [] x.t = "str" -> x.v # ""
    [] OTHER -> TRUE

\* str(x) / f"{x}" for the cells that are interpolated into messages
Format(x) == IF x.t = "nan" THEN "nan" ELSE x.v

IsNumeric(x) == x.t \in {"num", "bool"}
NumOf(x) == IF x.t = "bool" THEN (IF x.v THEN 1 ELSE 0) ELSE x.v

\* ------------------------------------------------------------------------
\* Record Store contents (agents and transactions tables, in store order)
\* ------------------------------------------------------------------------
AgentTable ==
  << [id |-> 1, name |-> "Agente 1"],
     [id |-> 2, name |-> "Agente 2"],
     [id |-> 3, name |-> "Agente 3"] >>

Tx(id, agent_id, origen, monto_destino, fee_total, fee_maxi) ==
  [id |-> id, agent_id |-> agent_id, origen |-> origen, destino |-> Str("COP"),
   monto_origen |-> Num(1), monto_destino |-> monto_destino,
   fee_total |-> fee_total, fee_maxi |-> fee_maxi,
   fee_operacion |-> Num(1), fee_proveedor |-> Num(0)]

\* agent 1 owns no transaction, agent 2 owns 7 and 8, agent 3 owns 9
TxTable ==
  << Tx(7, 2, Str("USD"), Num(5), Num(1), Num(2)),
     Tx(9, 3, None, None, None, Num(1)),
     Tx(8, 2, Str(""), Num(5), Num(1), Num(0)) >>

\* the ids that may be passed on the command line; 9 is in no table
IdPool == {1, 2, 3, 9}

\* db.query(Agent).filter(Agent.id.in_(agent_ids)).all()
QueryAgentsPerId(agent_ids) ==
  LET RECURSIVE Fetch(_)
      Fetch(i) == IF i > Len(agent_ids) THEN << >>
                  ELSE SelectSeq(AgentTable, LAMBDA a : a.id = agent_ids[i]) \o Fetch(i + 1)
  IN Fetch(1)

QueryAgents(agent_ids) ==
  SelectSeq(AgentTable, LAMBDA a : a.id \in Range(agent_ids))

\* db.query(Transaction).filter(Transaction.agent_id == agent.id).all()
QueryTransactions(agent_id) ==
  SelectSeq(TxTable, LAMBDA x : x.agent_id = agent_id)

\* hasattr(tx, field) / getattr(tx, field) on a Transaction row
HasAttr(tx, field) == field \in DOMAIN tx
GetAttr(tx, field) ==
  IF field \in {"id", "agent_id"} THEN Num(tx[field]) ELSE tx[field]

\* ------------------------------------------------------------------------
\* simple_eval(formula, names=context)
\* ------------------------------------------------------------------------
Name(id) == [op |-> "Name", id |-> id]
Constant(v) == [op |-> "Constant", value |-> v]
Compare(o, l, r) == [op |-> "Compare", cmp |-> o, left |-> l, right |-> r]
BoolOp(o, l, r) == [op |-> "BoolOp", bop |-> o, left |-> l, right |-> r]
BinOp(o, l, r) == [op |-> "BinOp", bin |-> o, left |-> l, right |-> r]
Call(f) == [op |-> "Call", func |-> f]
Unparsable == [op |-> "SyntaxError"]

\* ast.parse of the formula strings that occur in the rule pool
Parse(formula) ==
  CASE formula = "fee_total >= fee_maxi" ->
         Compare(">=", Name("fee_total"), Name("fee_maxi"))
    [] formula = "origen or monto_destino > 0" ->
         BoolOp("or", Name("origen"),
                      Compare(">", Name("monto_destino"), Constant(Num(0))))
    [] formula = "fee_total % fee_maxi == 0" ->
         Compare("==", BinOp("%", Name("fee_total"), Name("fee_maxi")),
                       Constant(Num(0)))
    [] formula = "open('x')" -> Call("open")
    [] OTHER -> Unparsable

\* simple_eval is called without `functions`: its default functions apply, and
\* a bare name that is no key of `names` but names one of them yields the
\* function object
DefaultFunctions == {"rand", "randint", "int", "float", "str"}
Function(f) == [t |-> "function", v |-> f]

Ok(v) == [err |-> "", val |-> v]
Err(e) == [err |-> e, val |-> None]

\* ==, > and >= ; the pool's formulas never order two strings, so an ordering
\* comparison with a non-numeric operand is the TypeError of None > 0
EvalCompare(o, a, b) ==
  IF o = "=="
  THEN Ok(Bool(IF IsNumeric(a) /\ IsNumeric(b) THEN NumOf(a) = NumOf(b)
               ELSE a.t = b.t /\ a.v = b.v))
  ELSE IF IsNumeric(a) /\ IsNumeric(b)
       THEN Ok(Bool(IF o = ">=" THEN NumOf(a) >= NumOf(b) ELSE NumOf(a) > NumOf(b)))
       ELSE Err("TypeError")

EvalBinOp(o, a, b) ==
  IF ~(IsNumeric(a) /\ IsNumeric(b)) THEN Err("TypeError")
  ELSE IF o = "%"
       THEN IF NumOf(b) = 0 THEN Err("ZeroDivisionError")
            ELSE Ok(Num(NumOf(a) % NumOf(b)))
       ELSE Ok(Num(NumOf(a) + NumOf(b)))

RECURSIVE Eval(_, _)
Eval(node, names) ==
  CASE node.op = "SyntaxError" -> Err("SyntaxError")
    [] node.op = "Constant" -> Ok(node.value)
    [] node.op = "Name" ->
         IF node.id \in DOMAIN names THEN Ok(names[node.id])
         ELSE IF node.id \in DefaultFunctions THEN Ok(Function(node.id))
         ELSE Err("NameNotDefined")
    \* the pool's only call is to open, which is no function of simple_eval
    [] node.op = "Call" -> Err("FunctionNotDefined")
    [] node.op = "Compare" ->
         LET a == Eval(node.left, names) IN
         IF a.err # "" THEN a
         ELSE LET b == Eval(node.right, names) IN
              IF b.err # "" THEN b ELSE EvalCompare(node.cmp, a.val, b.val)
    [] node.op = "BinOp" ->
         LET a == Eval(node.left, names) IN
         IF a.err # "" THEN a
         ELSE LET b == Eval(node.right, names) IN
              IF b.err # "" THEN b ELSE EvalBinOp(node.bin, a.val, b.val)
    [] node.op = "BoolOp" ->
         LET a == Eval(node.left, names) IN
         IF a.err # "" THEN a
         ELSE IF node.bop = "or"
              THEN (IF Truthy(a.val) THEN a ELSE Eval(node.right, names))
              ELSE (IF Truthy(a.val) THEN Eval(node.right, names) ELSE a)

simple_eval(formula, names) == Eval(Parse(formula), names)

\* ------------------------------------------------------------------------
\* The rule workbook
\* ------------------------------------------------------------------------
LowerLetters == << "a", "b", "c", "d", "e", "f", "g", "h", "i", "j", "k", "l", "m",
                   "n", "o", "p", "q", "r", "s", "t", "u", "v", "w", "x", "y", "z" >>
UpperLetters == << "A", "B", "C", "D", "E", "F", "G", "H", "I", "J", "K", "L", "M",
                   "N", "O", "P", "Q", "R", "S", "T", "U", "V", "W", "X", "Y", "Z" >>

LowerChar(c) ==
  IF \E i \in DOMAIN UpperLetters : UpperLetters[i] = c
  THEN LowerLetters[CHOOSE i \in DOMAIN UpperLetters : UpperLetters[i] = c]
  ELSE c
UpperChar(c) ==
  IF \E i \in DOMAIN LowerLetters : LowerLetters[i] = c
  THEN UpperLetters[CHOOSE i \in DOMAIN LowerLetters : LowerLetters[i] = c]
  ELSE c

\* str.lower() / str.upper() / str.capitalize() on a header
Lower(h) == [i \in DOMAIN h |-> LowerChar(h[i])]
Upper(h) == [i \in DOMAIN h |-> UpperChar(h[i])]
Title(h) == [i \in DOMAIN h |-> IF i = 1 THEN UpperChar(h[i]) ELSE LowerChar(h[i])]

col_rule_id == << "r", "u", "l", "e", "_", "i", "d" >>
col_description == << "d", "e", "s", "c", "r", "i", "p", "t", "i", "o", "n" >>
col_fields_required ==
  << "f", "i", "e", "l", "d", "s", "_", "r", "e", "q", "u", "i", "r", "e", "d" >>
col_formula == << "f", "o", "r", "m", "u", "l", "a" >>
col_message_on_fail ==
  << "m", "e", "s", "s", "a", "g", "e", "_", "o", "n", "_", "f", "a", "i", "l" >>
\* a column the orchestrator does not use
col_notes == << "N", "o", "t", "e", "s" >>

required_columns ==
  {col_rule_id, col_description, col_fields_required, col_formula, col_message_on_fail}

\* required_columns - set(df_rules.columns.str.lower())
MissingColsExact(columns) == required_columns \ columns

MissingColsUnchecked(columns) == {}

MissingCols(columns) == required_columns \ {Lower(h) : h \in columns}

\* df_rules.columns = df_rules.columns.str.lower()
NormalizeColumns(columns) == {Lower(h) : h \in columns}

\* One workbook row.  fields_required is the cell's text as a token list: a
\* token is a field name, "," or " " (one blank).
Rule(rule_id, fields, formula, message) ==
  [rule_id |-> rule_id, description |-> "regla", fields_required |-> fields,
   formula |-> formula, message_on_fail |-> message]

RulePool ==
  { Rule("R1", << "fee_total", ",", "fee_maxi" >>, "fee_total >= fee_maxi",
         Str("fee_total too low")),
    Rule("R2", << "origen", ",", " ", "comision", "," >>,
         "origen or monto_destino > 0", Str("sin origen ni monto")),
    Rule("R3", << " ", "fee_total", " ", ",", " ", "fee_maxi" >>,
         "fee_total % fee_maxi == 0", NaN),
    Rule("R4", << "fee_total" >>, "fee_total >=", Str("mal formada")),
    Rule("R5", << "fee_total" >>, "open('x')", NaN) }

\* str(cell).split(",")
RECURSIVE Split(_)
Split(tokens) ==
  IF \A i \in DOMAIN tokens : tokens[i] # "," THEN << tokens >>
  ELSE LET k == CHOOSE i \in DOMAIN tokens :
                  tokens[i] = "," /\ \A j \in 1..(i - 1) : tokens[j] # ","
       IN << SubSeq(tokens, 1, k - 1) >> \o Split(SubSeq(tokens, k + 1, Len(tokens)))

\* f.strip(): drop the blanks at both ends; a chunk of the pool holds at most
\* one name, an empty chunk is the empty string
RECURSIVE Strip(_)
Strip(chunk) ==
  IF chunk = << >> THEN ""
  ELSE IF Head(chunk) = " " THEN Strip(Tail(chunk))
  ELSE IF chunk[Len(chunk)] = " " THEN Strip(SubSeq(chunk, 1, Len(chunk) - 1))
  ELSE chunk[1]

\* [f.strip() for f in str(rule["fields_required"]).split(",")]
FieldsRequired(rule) ==
  LET parts == Split(rule.fields_required)
  IN [i \in DOMAIN parts |-> Strip(parts[i])]

\* the context dict built for one (transaction, rule) pair
ContextAllAttrs(tx, fields_required) ==
  [f \in Range(fields_required) \cup DOMAIN tx |->
     IF HasAttr(tx, f) THEN GetAttr(tx, f) ELSE None]

Context(tx, fields_required) ==
  [f \in Range(fields_required) |-> IF HasAttr(tx, f) THEN GetAttr(tx, f) ELSE None]

\* rule.get("message_on_fail", "Validacion fallida"): the key is a column of the
\* frame, so the cell is returned whatever it holds
FailMessage(rule) ==
  IF "message_on_fail" \in DOMAIN rule THEN rule.message_on_fail
  ELSE Str("Validacion fallida")

OkMessage == << "OK" >>
FailureText(rule) == << "FAIL ", Format(FailMessage(rule)) >>
ErrorText(rule, e) == << "Error evaluando regla ", rule.rule_id, ": ", e >>

\* `except Exception`: every error simple_eval raises derives from Exception
CatchesInvalidExpression(e) == e \in {"NameNotDefined", "FunctionNotDefined"}

Catches(e) ==
  e \in {"NameNotDefined", "FunctionNotDefined", "SyntaxError", "TypeError",
         "ZeroDivisionError"}

\* the dict of a loop body that tests `result is True` for the message
OutcomeStrictMessage(tx, rule) ==
  LET r == simple_eval(rule.formula, Context(tx, FieldsRequired(rule)))
  IN IF r.err = ""
     THEN [transaction_id |-> tx.id, rule_id |-> rule.rule_id, ok |-> Truthy(r.val),
           message |-> IF r.val = Bool(TRUE) THEN OkMessage ELSE FailureText(rule)]
     ELSE [transaction_id |-> tx.id, rule_id |-> rule.rule_id, ok |-> FALSE,
           message |-> ErrorText(rule, r.err)]

\* the dict appended for one (transaction, rule) pair
Outcome(tx, rule) ==
  LET r == simple_eval(rule.formula, Context(tx, FieldsRequired(rule)))
  IN IF r.err = ""
     THEN [transaction_id |-> tx.id, rule_id |-> rule.rule_id, ok |-> Truthy(r.val),
           message |-> IF Truthy(r.val) THEN OkMessage ELSE FailureText(rule)]
     ELSE [transaction_id |-> tx.id, rule_id |-> rule.rule_id, ok |-> FALSE,
           message |-> ErrorText(rule, r.err)]

\* the try/except around one evaluation: the validations list afterwards
EvalPairSwallow(validations, tx, rule) ==
  IF simple_eval(rule.formula, Context(tx, FieldsRequired(rule))).err = ""
  THEN Append(validations, Outcome(tx, rule))
  ELSE validations

EvalPairPrepend(validations, tx, rule) == << Outcome(tx, rule) >> \o validations

EvalPair(validations, tx, rule) == Append(validations, Outcome(tx, rule))

\* `for tx in transactions:` for one rule, from the i-th transaction on: the
\* validations list afterwards and the exception that left the loop, if any
RECURSIVE ApplyRule(_, _, _, _)
ApplyRule(validations, transactions, rule, i) ==
  IF i > Len(transactions) THEN [validations |-> validations, err |-> ""]
  ELSE LET e == simple_eval(rule.formula,
                            Context(transactions[i], FieldsRequired(rule))).err
       IN IF e # "" /\ ~Catches(e)
          THEN [validations |-> validations, err |-> e]
          ELSE ApplyRule(EvalPair(validations, transactions[i], rule),
                         transactions, rule, i + 1)

\* ------------------------------------------------------------------------
\* get_db: what the context manager still has to do once the with-body is
\* left, normally (e = "") or by the exception e
\* ------------------------------------------------------------------------
ExitPathNoFinally(e) == IF e = "" THEN << "commit", "close" >> ELSE << "rollback" >>

ExitPath(e) == IF e = "" THEN << "commit", "close" >> ELSE << "rollback", "close" >>

\* ------------------------------------------------------------------------
\* Inputs
\* ------------------------------------------------------------------------
MixedCase ==
  {Upper(col_rule_id), Title(col_description), col_fields_required,
   Upper(col_formula), Title(col_message_on_fail), col_notes}
LacksTwo == {Upper(col_rule_id), col_description, col_fields_required, col_notes}

\* the workbooks a run is started with: no file at the path, a file whose
\* header row lacks columns, a file with every column
NoFile == [exists |-> FALSE, columns |-> {}, rows |-> << >>]

\* every header row with each required column absent, lower, upper or
\* capitalised, with and without the unused column
Variants(c) == {{}, {c}, {Upper(c)}, {Title(c)}}
AllHeaderSets ==
  { a \cup b \cup c \cup d \cup e \cup n :
      a \in Variants(col_rule_id), b \in Variants(col_description),
      c \in Variants(col_fields_required), d \in Variants(col_formula),
      e \in Variants(col_message_on_fail), n \in {{}, {col_notes}} }

RuleTables == UNION {[1..n -> RulePool] : n \in 0..MaxRules}
OneRowTables == UNION {[1..n -> RulePool] : n \in 0..1}
LoadTables == {t \in OneRowTables : \A i \in DOMAIN t : t[i].rule_id = "R1"}
IdSeqs == UNION {[1..n -> IdPool] : n \in 0..MaxIds}

VARIABLES
  args,         \* parsed command line: agents (<< >> when --agents is absent), save
  rules_excel,  \* the workbook at rules_excel_path: exists, columns, rows
  pc,           \* position of the process
  df_rules,     \* rows of the loaded frame
  columns,      \* df_rules.columns
  results,      \* run_orchestrator's results list
  agents,       \* the agents the store returned
  ai,           \* index of the agent being processed
  agent_result, \* the dict of the agent being processed
  transactions, \* the transactions of the agent being processed
  ri,           \* index of the rule being applied
  dbLog,        \* session events: open, commit, commit_failed, rollback, close
  queryLog,     \* queries issued to the store
  exitOps,      \* what get_db still has to do
  exc,          \* exception travelling out of the with-body ("" when none)
  early,        \* the with-body was left by `return []`
  returned,     \* run_orchestrator returned
  run_result,   \* the value it returned
  raised,       \* exception that reached the interpreter ("" when none)
  missing_cols, \* the columns named by the ValueError
  stdout,       \* what main printed
  files         \* JSON documents written by save_results_json

vars == << args, rules_excel, pc, df_rules, columns, results, agents, ai,
           agent_result, transactions, ri, dbLog, queryLog, exitOps, exc,
           early, returned, run_result, raised, missing_cols, stdout, files >>

runVars == << df_rules, columns, results, agents, ai, agent_result,
              transactions, ri >>
dbVars == << dbLog, queryLog, exitOps, exc, early >>
outVars == << returned, run_result, raised, missing_cols, stdout, files >>
inVars == << args, rules_excel >>

NoAgentResult == [agent_id |-> 0, agent_name |-> "", validations |-> << >>]

Start ==
  /\ pc = "main"
  /\ df_rules = << >> /\ columns = {} /\ results = << >> /\ agents = << >>
  /\ ai = 0 /\ agent_result = NoAgentResult /\ transactions = << >>
  /\ ri = 0
  /\ dbLog = << >> /\ queryLog = << >> /\ exitOps = << >> /\ exc = ""
  /\ early = FALSE /\ returned = FALSE /\ run_result = << >>
  /\ raised = "" /\ missing_cols = {} /\ stdout = << >> /\ files = << >>

Init ==
  /\ args \in [agents : IdSeqs, save : BOOLEAN]
  /\ rules_excel \in {NoFile}
                      \cup [exists : {TRUE}, columns : {LacksTwo}, rows : OneRowTables]
                      \cup [exists : {TRUE}, columns : {MixedCase}, rows : RuleTables]
  /\ Start

\* the loader under every header row, on a small choice of the other inputs
InitLoad ==
  /\ args \in [agents : {<< >>, << 2 >>, << 9 >>, << 1, 3 >>}, save : BOOLEAN]
  /\ rules_excel \in {NoFile}
                      \cup [exists : {TRUE}, columns : AllHeaderSets, rows : LoadTables]
  /\ Start

\* ------------------------------------------------------------------------
\* main()
\* ------------------------------------------------------------------------
\* `if args.agents:` is false: parser.print_help()
MainHelp ==
  /\ pc = "main" /\ args.agents = << >>
  /\ stdout' = Append(stdout, "help")
  /\ pc' = "exit"
  /\ UNCHANGED << inVars, runVars, dbVars, returned, run_result, raised,
                  missing_cols, files >>

\* results = run_orchestrator(args.agents)
MainRun ==
  /\ pc = "main" /\ args.agents # << >>
  /\ pc' = "check_path"
  /\ UNCHANGED << inVars, runVars, dbVars, outVars >>

\* ------------------------------------------------------------------------
\* run_orchestrator: loading the rules
\* ------------------------------------------------------------------------
CheckPath ==
  /\ pc = "check_path"
  /\ IF rules_excel.exists
     THEN pc' = "read_excel" /\ raised' = raised
     ELSE pc' = "crashed" /\ raised' = "FileNotFoundError"
  /\ UNCHANGED << inVars, runVars, dbVars, returned, run_result, missing_cols,
                  stdout, files >>

ReadExcel ==
  /\ pc = "read_excel"
  /\ LET missing == MissingCols(rules_excel.columns) IN
     IF missing # {}
     THEN /\ pc' = "crashed" /\ raised' = "ValueError" /\ missing_cols' = missing
          /\ UNCHANGED << df_rules, columns >>
     ELSE /\ pc' = "get_db"
          /\ df_rules' = rules_excel.rows
          /\ columns' = NormalizeColumns(rules_excel.columns)
          /\ UNCHANGED << raised, missing_cols >>
  /\ UNCHANGED << inVars, results, agents, ai, agent_result, transactions, ri,
                  dbVars, returned, run_result, stdout, files >>

\* ------------------------------------------------------------------------
\* run_orchestrator: the with-body
\* ------------------------------------------------------------------------
\* with get_db() as db:  (db = SessionLocal(); yield db)
GetDb ==
  /\ pc = "get_db"
  /\ dbLog' = Append(dbLog, "open")
  /\ pc' = "query_agents"
  /\ UNCHANGED << inVars, runVars, queryLog, exitOps, exc, early, outVars >>

\* the agents query answers; `if not agents: return []`
QueryAgentsOk ==
  /\ pc = "query_agents"
  /\ queryLog' = Append(queryLog, "agents")
  /\ agents' = QueryAgents(args.agents)
  /\ IF agents' = << >>
     THEN /\ early' = TRUE /\ exitOps' = ExitPath("") /\ pc' = "db_exit"
          /\ ai' = ai
     ELSE /\ ai' = 1 /\ pc' = "for_agent"
          /\ UNCHANGED << early, exitOps >>
  /\ UNCHANGED << inVars, df_rules, columns, results, agent_result, transactions,
                  ri, dbLog, exc, outVars >>

\* the agents query fails in the store
QueryAgentsFail ==
  /\ pc = "query_agents"
  /\ queryLog' = Append(queryLog, "agents")
  /\ exc' = "OperationalError"
  /\ exitOps' = ExitPath("OperationalError")
  /\ pc' = "db_exit"
  /\ UNCHANGED << inVars, runVars, dbLog, early, outVars >>

\* for agent in agents: the next agent, with its fresh agent_result
NextAgent ==
  /\ pc = "for_agent" /\ ai <= Len(agents)
  /\ agent_result' = [agent_id |-> agents[ai].id, agent_name |-> agents[ai].name,
                      validations |-> << >>]
  /\ pc' = "query_tx"
  /\ UNCHANGED << inVars, df_rules, columns, results, agents, ai, transactions,
                  ri, dbVars, outVars >>

\* the agents are exhausted: the with-body ends normally
EndAgents ==
  /\ pc = "for_agent" /\ ai > Len(agents)
  /\ exitOps' = ExitPath("")
  /\ pc' = "db_exit"
  /\ UNCHANGED << inVars, runVars, dbLog, queryLog, exc, early, outVars >>

\* the transactions query answers; `if not transactions: continue`
QueryTxOk ==
  /\ pc = "query_tx"
  /\ queryLog' = Append(queryLog, "transactions")
  /\ transactions' = QueryTransactions(agents[ai].id)
  /\ IF transactions' = << >>
     THEN /\ ai' = ai + 1 /\ pc' = "for_agent"
          /\ ri' = ri
     ELSE /\ ri' = 1 /\ pc' = "for_rule"
          /\ ai' = ai
  /\ UNCHANGED << inVars, df_rules, columns, results, agents, agent_result,
                  dbLog, exitOps, exc, early, outVars >>

\* the transactions query fails in the store
QueryTxFail ==
  /\ pc = "query_tx"
  /\ queryLog' = Append(queryLog, "transactions")
  /\ exc' = "OperationalError"
  /\ exitOps' = ExitPath("OperationalError")
  /\ pc' = "db_exit"
  /\ UNCHANGED << inVars, runVars, dbLog, early, outVars >>

\* one pass of `for _, rule in df_rules.iterrows():`
RuleStep ==
  /\ pc = "for_rule" /\ ri <= Len(df_rules)
  /\ LET a == ApplyRule(agent_result.validations, transactions, df_rules[ri], 1)
     IN /\ agent_result' = [agent_result EXCEPT !.validations = a.validations]
        /\ IF a.err # ""
           THEN /\ exc' = a.err
                /\ exitOps' = ExitPath(a.err)
                /\ pc' = "db_exit"
                /\ ri' = ri
           ELSE /\ ri' = ri + 1
                /\ UNCHANGED << exc, exitOps, pc >>
  /\ UNCHANGED << inVars, df_rules, columns, results, agents, ai, transactions,
                  dbLog, queryLog, early, outVars >>

\* the rules are exhausted: results.append(agent_result)
AppendAgentResult ==
  /\ pc = "for_rule" /\ ri > Len(df_rules)
  /\ results' = Append(results, agent_result)
  /\ ai' = ai + 1
  /\ pc' = "for_agent"
  /\ UNCHANGED << inVars, df_rules, columns, agents, agent_result, transactions,
                  ri, dbVars, outVars >>

\* ------------------------------------------------------------------------
\* get_db after the yield
\* ------------------------------------------------------------------------
CommitOk ==
  /\ pc = "db_exit" /\ exitOps # << >> /\ Head(exitOps) = "commit"
  /\ dbLog' = Append(dbLog, "commit")
  /\ exitOps' = Tail(exitOps)
  /\ UNCHANGED << inVars, runVars, pc, queryLog, exc, early, outVars >>

\* db.commit() raises: the except clause and the finally clause follow
CommitFail ==
  /\ pc = "db_exit" /\ exitOps # << >> /\ Head(exitOps) = "commit"
  /\ dbLog' = Append(dbLog, "commit_failed")
  /\ exc' = "OperationalError"
  /\ exitOps' = ExitPath("OperationalError")
  /\ UNCHANGED << inVars, runVars, pc, queryLog, early, outVars >>

Rollback ==
  /\ pc = "db_exit" /\ exitOps # << >> /\ Head(exitOps) = "rollback"
  /\ dbLog' = Append(dbLog, "rollback")
  /\ exitOps' = Tail(exitOps)
  /\ UNCHANGED << inVars, runVars, pc, queryLog, exc, early, outVars >>

Close ==
  /\ pc = "db_exit" /\ exitOps # << >> /\ Head(exitOps) = "close"
  /\ dbLog' = Append(dbLog, "close")
  /\ exitOps' = Tail(exitOps)
  /\ UNCHANGED << inVars, runVars, pc, queryLog, exc, early, outVars >>

\* the with statement is left: the exception goes on to the caller, or
\* run_orchestrator returns ([] on the early return, results otherwise)
LeaveWith ==
  /\ pc = "db_exit" /\ exitOps = << >>
  /\ IF exc # ""
     THEN /\ raised' = exc /\ pc' = "crashed"
          /\ UNCHANGED << returned, run_result >>
     ELSE /\ returned' = TRUE
          /\ run_result' = IF early THEN << >> ELSE results
          /\ pc' = "main_results"
          /\ raised' = raised
  /\ UNCHANGED << inVars, runVars, dbVars, missing_cols, stdout, files >>

\* ------------------------------------------------------------------------
\* main() after run_orchestrator returned
\* ------------------------------------------------------------------------
\* `if results:`
HasResultsNotNone(r) == TRUE

HasResults(r) == r # << >>

\* `if results:` is false
MainNoResults ==
  /\ pc = "main_results" /\ ~HasResults(run_result)
  /\ stdout' = Append(stdout, "No hubo resultados para guardar.")
  /\ pc' = "exit"
  /\ UNCHANGED << inVars, runVars, dbVars, returned, run_result, raised,
                  missing_cols, files >>

\* save_results_json(results, ...) and the confirmation
MainSave ==
  /\ pc = "main_results" /\ HasResults(run_result) /\ args.save
  /\ files' = Append(files, run_result)
  /\ stdout' = Append(stdout, "Resultados guardados en")
  /\ pc' = "exit"
  /\ UNCHANGED << inVars, runVars, dbVars, returned, run_result, raised,
                  missing_cols >>

\* print(json.dumps(results, ...)): main.py never imports json
MainPrint ==
  /\ pc = "main_results" /\ HasResults(run_result) /\ ~args.save
  /\ raised' = "NameError"
  /\ pc' = "crashed"
  /\ UNCHANGED << inVars, runVars, dbVars, returned, run_result, missing_cols,
                  stdout, files >>

Next ==
  \/ MainHelp \/ MainRun \/ CheckPath \/ ReadExcel \/ GetDb
  \/ QueryAgentsOk \/ QueryAgentsFail \/ NextAgent \/ EndAgents
  \/ QueryTxOk \/ QueryTxFail \/ RuleStep \/ AppendAgentResult
  \/ CommitOk \/ CommitFail \/ Rollback \/ Close \/ LeaveWith
  \/ MainNoResults \/ MainSave \/ MainPrint

Spec == Init /\ [][Next]_vars

SpecLoad == InitLoad /\ [][Next]_vars

\* ------------------------------------------------------------------------
\* Vocabulary of the properties
\* ------------------------------------------------------------------------
\* the store's rows, read off the tables
StoreTxs(a) == SelectSeq(TxTable, LAMBDA x : x.agent_id = a)
StoreAgentIds == {AgentTable[i].id : i \in DOMAIN AgentTable}
Requested(a) == \E i \in DOMAIN args.agents : args.agents[i] = a

Rows == rules_excel.rows
EvalErrors ==
  {"NameNotDefined", "FunctionNotDefined", "SyntaxError", "TypeError",
   "ZeroDivisionError"}
IsErrorMessage(m) == Len(m) = 4 /\ m[1] = "Error evaluando regla "

\* the context the specification prescribes for a pair: the rule's required
\* fields and nothing else
PairContext(tx, rule) ==
  LET fields == FieldsRequired(rule)
  IN [f \in {fields[i] : i \in DOMAIN fields} |->
        IF f \in DOMAIN tx THEN GetAttr(tx, f) ELSE None]
PairEval(tx, rule) == Eval(Parse(rule.formula), PairContext(tx, rule))

\* position of the outcome of (rule r, transaction t) in a rule-major list
Pos(r, t, nT) == (r - 1) * nT + t

\* ------------------------------------------------------------------------
\* C1: after a run that returned, every agent that was retrieved and owns a
\* transaction has validations holding each (transaction, rule row) pair
\* exactly once, Len(rules) * Len(transactions) entries in all, errors included
\* ------------------------------------------------------------------------
C1_OncePerPair ==
  returned =>
    \A k \in DOMAIN run_result :
      LET v == run_result[k].validations
          txs == StoreTxs(run_result[k].agent_id)
      IN /\ Len(v) = Len(Rows) * Len(txs)
         /\ \A t \in DOMAIN txs : \A r \in DOMAIN Rows :
              Cardinality({i \in DOMAIN v : /\ v[i].transaction_id = txs[t].id
                                            /\ v[i].rule_id = Rows[r].rule_id})
                = Cardinality({q \in DOMAIN Rows : Rows[q].rule_id = Rows[r].rule_id})

C1_Witness ==
  /\ returned
  /\ \E k \in DOMAIN run_result :
       LET v == run_result[k].validations
       IN /\ Len(v) = 4
          /\ \E i, j \in DOMAIN v : v[i].ok /\ IsErrorMessage(v[j].message)

\* ------------------------------------------------------------------------
\* C2: the validations of an agent are in rule-major, transaction-minor
\* order: entry (r-1)*nT + t is rule row r against the t-th transaction of the
\* agent in store order
\* ------------------------------------------------------------------------
C2_RuleMajorOrder ==
  returned =>
    \A k \in DOMAIN run_result :
      LET v == run_result[k].validations
          txs == StoreTxs(run_result[k].agent_id)
          nT == Len(txs)
      IN \A r \in DOMAIN Rows : \A t \in DOMAIN txs :
           Pos(r, t, nT) \in DOMAIN v =>
             /\ v[Pos(r, t, nT)].rule_id = Rows[r].rule_id
             /\ v[Pos(r, t, nT)].transaction_id = txs[t].id

C2_Witness ==
  /\ returned
  /\ \E k \in DOMAIN run_result :
       LET v == run_result[k].validations
       IN /\ Len(v) = 4
          /\ v[1].rule_id = v[2].rule_id /\ v[3].rule_id = v[4].rule_id
          /\ v[1].rule_id # v[3].rule_id
          /\ v[1].transaction_id # v[2].transaction_id

\* ------------------------------------------------------------------------
\* C3: the RunResult holds one AgentResult per retrieved agent that owns a
\* transaction, in store order, and none for an agent without transactions,
\* also when an id is requested twice
\* ------------------------------------------------------------------------
ExpectedAgents ==
  SelectSeq(AgentTable, LAMBDA a : Requested(a.id) /\ StoreTxs(a.id) # << >>)

C3_OneResultPerAgent ==
  returned =>
    /\ Len(run_result) = Len(ExpectedAgents)
    /\ \A k \in DOMAIN run_result :
         /\ run_result[k].agent_id = ExpectedAgents[k].id
         /\ run_result[k].agent_name = ExpectedAgents[k].name

\* agent 1 (no transactions) was retrieved first and skipped, a later agent
\* was still processed
C3_Witness ==
  /\ returned
  /\ Requested(1)
  /\ Len(run_result) = 1
  /\ run_result[1].agent_id # 1
  /\ run_result[1].validations # << >>

\* ------------------------------------------------------------------------
\* C4: an evaluation that raises is recorded as ok = FALSE with the
\* evaluation-error message of its pair and never leaves the with-body as an
\* exception; the pairs after it are still evaluated
\* ------------------------------------------------------------------------
C4_ErrorsAreRecorded ==
  /\ exc \notin EvalErrors
  /\ raised \notin EvalErrors
  /\ returned =>
       \A k \in DOMAIN run_result :
         LET v == run_result[k].validations
             txs == StoreTxs(run_result[k].agent_id)
         IN \A r \in DOMAIN Rows : \A t \in DOMAIN txs :
              PairEval(txs[t], Rows[r]).err # "" =>
                /\ Len(v) = Len(Rows) * Len(txs)
                /\ ~v[Pos(r, t, Len(txs))].ok
                /\ v[Pos(r, t, Len(txs))].message =
                     << "Error evaluando regla ", Rows[r].rule_id, ": ",
                        PairEval(txs[t], Rows[r]).err >>

\* the first pair of the first agent raised; a later pair of that agent
\* passed and a later agent was validated
C4_Witness ==
  /\ returned
  /\ Len(run_result) = 2
  /\ run_result[1].validations # << >>
  /\ IsErrorMessage(run_result[1].validations[1].message)
  /\ \E i \in DOMAIN run_result[1].validations : run_result[1].validations[i].ok
  /\ run_result[2].validations # << >>

\* ------------------------------------------------------------------------
\* C5: a run opens at most one session, and when it ends (by returning or by
\* an exception reaching the caller) a session it opened has been released
\* once: commit then close when it returns, rollback then close when it raises
\* ------------------------------------------------------------------------
Count(log, e) == Cardinality({i \in DOMAIN log : log[i] = e})

C5_SessionReleased ==
  /\ Count(dbLog, "open") <= 1
  /\ Count(dbLog, "close") <= 1
  /\ (dbLog # << >> /\ (returned \/ raised # "")) =>
       IF returned
       THEN dbLog = << "open", "commit", "close" >>
       ELSE dbLog \in { << "open", "rollback", "close" >>,
                        << "open", "commit_failed", "rollback", "close" >> }

\* a store failure after one agent had been validated
C5_Witness ==
  /\ raised = "OperationalError"
  /\ results # << >>
  /\ dbLog = << "open", "rollback", "close" >>

\* ------------------------------------------------------------------------
\* Header comparison without regard to letter case
\* ------------------------------------------------------------------------
LetterPairs == {{LowerLetters[i], UpperLetters[i]} : i \in DOMAIN LowerLetters}
SameLetter(a, b) == a = b \/ {a, b} \in LetterPairs
SameIgnoringCase(g, h) ==
  /\ Len(g) = Len(h)
  /\ \A i \in DOMAIN g : SameLetter(g[i], h[i])
\* the headers that occur in some workbook, each with the required column it
\* equals up to letter case
MatchingHeaders ==
  {p \in (UNION AllHeaderSets) \X required_columns : SameIgnoringCase(p[1], p[2])}
\* the required columns no header of the workbook matches
TrulyMissing(headers) ==
  {c \in required_columns : ~\E h \in headers : << h, c >> \in MatchingHeaders}

RuleSourceFatal ==
  \/ ~rules_excel.exists
  \/ TrulyMissing(rules_excel.columns) # {}

\* ------------------------------------------------------------------------
\* C6: when the rule file is missing or lacks a required column, the run
\* stops before any store access: no session is opened, no query is issued,
\* run_orchestrator returns nothing, and main writes no file and ends with the
\* loader's exception
\* ------------------------------------------------------------------------
C6_FatalBeforeStore ==
  RuleSourceFatal =>
    /\ dbLog = << >>
    /\ queryLog = << >>
    /\ ~returned
    /\ run_result = << >> /\ results = << >>
    /\ files = << >>
    /\ pc \in {"main", "check_path", "read_excel", "exit", "crashed"}
    /\ pc = "crashed" => raised \in {"FileNotFoundError", "ValueError"}
    /\ pc = "exit" => args.agents = << >>

\* --save was given, the workbook lacks columns, the run ended in ValueError
C6_Witness ==
  /\ pc = "crashed"
  /\ raised = "ValueError"
  /\ args.save
  /\ rules_excel.exists

\* ------------------------------------------------------------------------
\* C7: when no requested id is in the agents table and the store answers,
\* run_orchestrator returns the empty list without an exception and main
\* prints the no-results notice, saving and printing no result
\* ------------------------------------------------------------------------
NoneExists ==
  /\ args.agents # << >>
  /\ \A i \in DOMAIN args.agents : args.agents[i] \notin StoreAgentIds

C7_NoAgentsIsEmptyResult ==
  (NoneExists /\ queryLog # << >> /\ exc = "") =>
    /\ queryLog = << "agents" >>
    /\ raised = ""
    /\ run_result = << >> /\ results = << >>
    /\ files = << >>
    /\ pc \in {"db_exit", "main_results", "exit"}
    /\ pc \in {"main_results", "exit"} => returned
    /\ IF pc = "exit"
       THEN stdout = << "No hubo resultados para guardar." >>
       ELSE stdout = << >>

C7_Witness ==
  /\ NoneExists
  /\ pc = "exit"
  /\ returned /\ run_result = << >>
  /\ dbLog = << "open", "commit", "close" >>
  /\ stdout = << "No hubo resultados para guardar." >>

\* ------------------------------------------------------------------------
\* C8: once the workbook has been read, a ValueError was raised exactly when
\* some required column has no header equal to it up to letter case, and the
\* error names exactly those columns; a workbook with all five headers in any
\* letter case passes the check
\* ------------------------------------------------------------------------
C8_MissingColumnsNamed ==
  (rules_excel.exists /\ pc \notin {"main", "check_path", "read_excel"}
     /\ args.agents # << >>) =>
    IF TrulyMissing(rules_excel.columns) # {}
    THEN /\ raised = "ValueError"
         /\ missing_cols = TrulyMissing(rules_excel.columns)
    ELSE /\ raised # "ValueError"
         /\ missing_cols = {}
         /\ columns = required_columns \cup (IF col_notes \in rules_excel.columns
                                             THEN {Lower(col_notes)} ELSE {})

\* two columns are missing, the others are present in upper and title case
C8_Witness ==
  /\ raised = "ValueError"
  /\ missing_cols = {col_formula, col_description}
  /\ Upper(col_rule_id) \in rules_excel.columns
  /\ Title(col_message_on_fail) \in rules_excel.columns
  /\ col_notes \in rules_excel.columns

\* ------------------------------------------------------------------------
\* Names a formula refers to
\* ------------------------------------------------------------------------
RECURSIVE NamesOf(_)
NamesOf(node) ==
  CASE node.op = "Name" -> {node.id}
    [] node.op \in {"Compare", "BinOp", "BoolOp"} ->
         NamesOf(node.left) \cup NamesOf(node.right)
    [] OTHER -> {}

\* the names of the rule's formula that its context does not hold
AbsentNames(tx, rule) == NamesOf(Parse(rule.formula)) \ DOMAIN PairContext(tx, rule)

\* the outcome recorded for (rule row r, t-th transaction) of an AgentResult
OutcomeAt(ar, r, t) == ar.validations[Pos(r, t, Len(StoreTxs(ar.agent_id)))]
Complete(ar) == Len(ar.validations) = Len(Rows) * Len(StoreTxs(ar.agent_id))

C10_NonBooleanResultFails ==
  returned =>
    \A k \in DOMAIN run_result :
      LET txs == StoreTxs(run_result[k].agent_id)
      IN Complete(run_result[k]) =>
           \A r \in DOMAIN Rows : \A t \in DOMAIN txs :
             (/\ PairEval(txs[t], Rows[r]).err = ""
              /\ PairEval(txs[t], Rows[r]).val.t \notin {"bool", "num"}) =>
               /\ ~OutcomeAt(run_result[k], r, t).ok
               /\ IsErrorMessage(OutcomeAt(run_result[k], r, t).message)

\* ------------------------------------------------------------------------
\* C11 as stated: a failed (non-error) outcome of a rule whose
\* message_on_fail cell is blank carries the default failure text, and no
\* other placeholder
\* ------------------------------------------------------------------------
C11_BlankMessageUsesDefault ==
  returned =>
    \A k \in DOMAIN run_result :
      LET txs == StoreTxs(run_result[k].agent_id)
      IN Complete(run_result[k]) =>
           \A r \in DOMAIN Rows : \A t \in DOMAIN txs :
             (/\ Rows[r].message_on_fail = NaN
              /\ PairEval(txs[t], Rows[r]).err = ""
              /\ ~Truthy(PairEval(txs[t], Rows[r]).val)) =>
               /\ ~OutcomeAt(run_result[k], r, t).ok
               /\ OutcomeAt(run_result[k], r, t).message =
                    << "FAIL ", "Validacion fallida" >>

\* the program has stopped: main returned or an exception left it
Terminated == pc \in {"exit", "crashed"}

\* ------------------------------------------------------------------------
\* C12 as stated: a run with agent ids and a non-empty result, without
\* --save, prints the result list and returns normally without writing a
\* file; with --save it writes the file and prints the confirmation instead
\* ------------------------------------------------------------------------
C12_PrintsOrSaves ==
  (Terminated /\ returned /\ HasResults(run_result)) =>
    IF args.save
    THEN /\ pc = "exit" /\ raised = ""
         /\ files = << run_result >>
         /\ stdout = << "Resultados guardados en" >>
    ELSE /\ pc = "exit" /\ raised = ""
         /\ files = << >>
         /\ Len(stdout) = 1

\* a failure message: the failure marker followed by one text
IsFailureMessage(m) == Len(m) = 2 /\ m[1] = "FAIL "

\* ------------------------------------------------------------------------
\* C13: in every outcome of a returned run, ok is TRUE exactly when the
\* message is the success marker; when the evaluation did not raise, ok is
\* the truthiness of its result and a falsy result gives a failure message
\* that carries the text of the rule's message_on_fail cell; when it raised,
\* ok is FALSE and the message is the evaluation-error message naming the
\* rule
\* ------------------------------------------------------------------------
C13_OkAgreesWithMessage ==
  returned =>
    \A k \in DOMAIN run_result :
      LET txs == StoreTxs(run_result[k].agent_id)
      IN /\ \A i \in DOMAIN run_result[k].validations :
              LET o == run_result[k].validations[i]
              IN /\ o.ok <=> (o.message = OkMessage)
                 /\ ~o.ok => (IsFailureMessage(o.message) \/ IsErrorMessage(o.message))
         /\ Complete(run_result[k]) =>
              \A r \in DOMAIN Rows : \A t \in DOMAIN txs :
                LET o == OutcomeAt(run_result[k], r, t)
                    e == PairEval(txs[t], Rows[r])
                IN IF e.err = ""
                   THEN /\ o.ok = Truthy(e.val)
                        /\ ~Truthy(e.val) =>
                             /\ IsFailureMessage(o.message)
                             /\ Rows[r].message_on_fail.t = "str" =>
                                  o.message[2] = Rows[r].message_on_fail.v
                   ELSE /\ ~o.ok
                        /\ IsErrorMessage(o.message)
                        /\ o.message[2] = Rows[r].rule_id

\* agent 2 under rules R1 and R2: transaction 7 fails R1 with the configured
\* text and passes R2 with the string result "USD", transaction 8 passes R1
\* and raises under R2
C13_Witness ==
  /\ returned
  /\ \E k \in DOMAIN run_result :
       /\ run_result[k].agent_id = 2
       /\ Complete(run_result[k])
       /\ Len(Rows) = 2 /\ Rows[1].rule_id = "R1" /\ Rows[2].rule_id = "R2"
       /\ OutcomeAt(run_result[k], 1, 1) =
            [transaction_id |-> 7, rule_id |-> "R1", ok |-> FALSE,
             message |-> << "FAIL ", "fee_total too low" >>]
       /\ OutcomeAt(run_result[k], 1, 2) =
            [transaction_id |-> 8, rule_id |-> "R1", ok |-> TRUE, message |-> OkMessage]
       /\ OutcomeAt(run_result[k], 2, 1) =
            [transaction_id |-> 7, rule_id |-> "R2", ok |-> TRUE, message |-> OkMessage]
       /\ OutcomeAt(run_result[k], 2, 2) =
            [transaction_id |-> 8, rule_id |-> "R2", ok |-> FALSE,
             message |-> << "Error evaluando regla ", "R2", ": ", "NameNotDefined" >>]

====
